---- MODULE Spec2Model ----
(***************************************************************************)
(* A model of the two iOS localization utilities of this repository:       *)
(*   clean_unused_localizations.py  (class LocalizationCleaner)            *)
(*   check_missing_localizations.py (the key-diff tool)                    *)
(* Python str values are TLA+ strings; a character is a string of length   *)
(* one.  Files on disk are records [exists, data] holding the raw text.    *)
(* The text layer is the POSIX one (os.linesep is LF).                      *)
(***************************************************************************)
EXTENDS Integers, Sequences, FiniteSets, TLC

----------------------------------------------------------------------------
(* Bounds of the model *)

\* most lines a generated Localizable.strings file holds
MaxLines == 3

\* how often snake_to_camel is called on one key
MaxCalls == 2

----------------------------------------------------------------------------
(* Python str primitives *)

LF == "\n"
CR == "\r"
FF == "\f"
TAB == "\t"
QUOTE == "\""
BSL == "\\"

CharAt(s, i) == SubSeq(s, i, i)
From(s, i) == SubSeq(s, i, Len(s))

\* str.isspace() / regex \s over the characters the model draws text from
IsSpace(c) == c \in {" ", TAB, LF, CR, FF}

\* the regex class [a-zA-Z0-9_.-], over the characters the model draws from
IsKeyChar(c) == c \in {"a", "b", "c", "k", "x", "A", "B", "C", "K", "X",
                       "0", "1", "_", ".", "-"}

RECURSIVE LStrip(_)
LStrip(s) ==
    IF Len(s) > 0 /\ IsSpace(CharAt(s, 1)) THEN LStrip(From(s, 2)) ELSE s

RECURSIVE RStrip(_)
RStrip(s) ==
    IF Len(s) > 0 /\ IsSpace(CharAt(s, Len(s)))
    THEN RStrip(SubSeq(s, 1, Len(s) - 1)) ELSE s

\* str.strip()
Strip(s) == RStrip(LStrip(s))

\* str.startswith
StartsWith(s, p) == Len(s) >= Len(p) /\ SubSeq(s, 1, Len(p)) = p

\* the `in` operator on two strs: term occurs in content as a substring
Contains(content, term) ==
    \E i \in 1..(Len(content) - Len(term) + 1) :
        SubSeq(content, i, i + Len(term) - 1) = term

\* text-mode decoding with newline=None (universal newlines): CR LF and a
\* lone CR both read as LF
RECURSIVE UniversalNewlines(_)
UniversalNewlines(raw) ==
    IF Len(raw) = 0 THEN ""
    ELSE IF CharAt(raw, 1) = CR
         THEN IF Len(raw) >= 2 /\ CharAt(raw, 2) = LF
              THEN LF \o UniversalNewlines(From(raw, 3))
              ELSE LF \o UniversalNewlines(From(raw, 2))
         ELSE CharAt(raw, 1) \o UniversalNewlines(From(raw, 2))

\* text-mode encoding with newline=None: LF is written as os.linesep,
\* which is LF here, so the text is written as it is
os_linesep == LF

RECURSIVE EncodeNewlines(_)
EncodeNewlines(text) ==
    IF Len(text) = 0 THEN ""
    ELSE (IF CharAt(text, 1) = LF THEN os_linesep ELSE CharAt(text, 1))
         \o EncodeNewlines(From(text, 2))

\* the lines of decoded text, each keeping its LF
RECURSIVE SplitKeepEnds(_, _, _)
SplitKeepEnds(text, cur, acc) ==
    IF Len(text) = 0
    THEN IF cur = "" THEN acc ELSE Append(acc, cur)
    ELSE IF CharAt(text, 1) = LF
         THEN SplitKeepEnds(From(text, 2), "", Append(acc, cur \o LF))
         ELSE SplitKeepEnds(From(text, 2), cur \o CharAt(text, 1), acc)

\* open(path, 'r', encoding='utf-8').readlines()
ReadLines(raw) == SplitKeepEnds(UniversalNewlines(raw), "", <<>>)

----------------------------------------------------------------------------
(* The entry pattern of the cleaner (source lines 150 and 303): optional   *)
(* whitespace, a quoted key of one or more key characters, an equals sign  *)
(* with optional whitespace around it, a quoted value in which a backslash *)
(* escapes the character after it, optional whitespace, a semicolon, and   *)
(* optional whitespace up to the end.  Every choice of the pattern is      *)
(* forced by the next character, so the match is one left-to-right scan.   *)
(* A position 0 means no match.                                            *)

RECURSIVE SkipWs(_, _)
SkipWs(s, i) ==
    IF i <= Len(s) /\ IsSpace(CharAt(s, i)) THEN SkipWs(s, i + 1) ELSE i

RECURSIVE KeyEnd(_, _)
\* the first position after the run of key characters that starts at i
KeyEnd(s, i) ==
    IF i <= Len(s) /\ IsKeyChar(CharAt(s, i)) THEN KeyEnd(s, i + 1) ELSE i

RECURSIVE ValueEnd(_, _)
\* the position of the quote that closes the value starting at i, or 0
ValueEnd(s, i) ==
    IF i > Len(s) THEN 0
    ELSE IF CharAt(s, i) = QUOTE THEN i
    ELSE IF CharAt(s, i) = BSL
         THEN IF i + 1 <= Len(s) /\ CharAt(s, i + 1) # LF
              THEN ValueEnd(s, i + 2) ELSE 0
         ELSE ValueEnd(s, i + 1)

NoMatch == [ok |-> FALSE, key |-> "", value |-> ""]

\* re.match(pattern, s): [ok, key (group 1), value (group 2)]
MatchEntry(s) ==
    LET q1 == SkipWs(s, 1)
        k1 == q1 + 1
        k2 == KeyEnd(s, k1)
        e1 == SkipWs(s, k2 + 1)
        q3 == SkipWs(s, e1 + 1)
        v1 == q3 + 1
        v2 == ValueEnd(s, v1)
        sc == SkipWs(s, v2 + 1)
        en == SkipWs(s, sc + 1)
    IN  IF /\ q1 <= Len(s) /\ CharAt(s, q1) = QUOTE
           /\ k2 > k1
           /\ k2 <= Len(s) /\ CharAt(s, k2) = QUOTE
           /\ e1 <= Len(s) /\ CharAt(s, e1) = "="
           /\ q3 <= Len(s) /\ CharAt(s, q3) = QUOTE
           /\ v2 # 0
           /\ sc <= Len(s) /\ CharAt(s, sc) = ";"
           /\ en = Len(s) + 1
        THEN [ok |-> TRUE, key |-> SubSeq(s, k1, k2 - 1),
              value |-> SubSeq(s, v1, v2 - 1)]
        ELSE NoMatch

----------------------------------------------------------------------------
(* State *)

VARIABLES
    \* --- LocalizationCleaner: inputs and the files it touches ---
    entry,            \* what is called: remove_unused_localizations or run
    dry_run,          \* self.dry_run
    unused_keys,      \* the argument of remove_unused_localizations
    localizable_file, \* the target file on disk: [exists, data]
    backup_file,      \* its sibling <name>.strings.backup on disk
    target_before,    \* the target file when the run began (history)
    backup_before,    \* the backup file when the run began (history)
    \* --- LocalizationCleaner: the run itself ---
    pc,               \* the statement the cleaner is at
    lines,            \* local: f.readlines() of the target
    filtered_lines,   \* local: the lines to write back
    removed_count,    \* local: lines dropped by the filter loop
    widx,             \* local: index of the next line writelines() writes
    ret,              \* the value returned by remove_unused_localizations
    out,              \* what was printed: a sequence of [tag, n]
    localizations,    \* local of run(): the parsed table, key -> [camel, value]
    unused,           \* local of run(): the keys found unused
    report,           \* localization_cleanup_report.txt: [written, unused]
    run_ret,          \* the value returned by run(): "none", "True", "False"
    confirm,          \* local of run(): the answer to the prompt, or "none"
    \* --- snake_to_camel called on its own ---
    snake_str,        \* the argument
    camel_calls,      \* how many calls have returned
    camel_result,     \* what the first call returned
    camel_again,      \* what the latest call returned
    \* --- is_localization_used called on its own ---
    original_key,     \* the argument original_key
    swift_files,      \* the argument swift_files: a sequence of source files
    scan_pc,          \* "start", then "done" once it has returned
    scan_result,      \* the tuple returned: [is_used, used_files, usage_type]
    \* --- check_missing_localizations.py ---
    base_file,        \* args.base_file on disk: [exists, readable, data]
    compare_file1,    \* args.compare_file1 on disk
    compare_file2,    \* args.compare_file2 on disk
    compare2_given,   \* whether the optional third argument was given
    diff_pc,          \* the statement main() is at
    base_keys,        \* local of main()
    total_missing,    \* local of main()
    shown,            \* the key lists printed, one per comparison made
    main_ret,         \* the value main() returned
    exit_code         \* the exit status of the process

runVars == <<localizations, unused, report, run_ret, confirm>>

cleanVars == <<entry, dry_run, unused_keys, localizable_file, backup_file,
               target_before, backup_before, pc, lines, filtered_lines,
               removed_count, widx, ret, out, runVars>>

\* the content of the target file when the run began
original == target_before.data

camelVars == <<snake_str, camel_calls, camel_result, camel_again>>

scanVars == <<original_key, swift_files, scan_pc, scan_result>>

diffVars == <<base_file, compare_file1, compare_file2, compare2_given,
              diff_pc, base_keys, total_missing, shown, main_ret, exit_code>>

vars == <<cleanVars, camelVars, scanVars, diffVars>>

----------------------------------------------------------------------------
(* The inputs the model draws from *)

\* the text of one line of a Localizable.strings file, without terminator
LineTexts ==
    { "\"a\"=\"x\";",          \* an entry with key a
      "  \"b\" = \"y\" ; ",    \* an entry with key b, padded with blanks
      "\"a\"=\"\\\"\";",       \* key a again, its value an escaped quote
      "//c",                   \* a comment line
      "",                      \* a blank line
      "\"a\"=x;" }             \* looks like an entry, fails the pattern

\* the line terminators a file is written with
Terminators == {LF, CR \o LF}

RECURSIVE Join(_, _, _)
\* the texts in order, each followed by eol; the last one only if final
Join(texts, eol, final) ==
    IF Len(texts) = 0 THEN ""
    ELSE IF Len(texts) = 1
         THEN texts[1] \o (IF final THEN eol ELSE "")
         ELSE texts[1] \o eol \o Join(Tail(texts), eol, final)

FileContents ==
    { Join(t, eol, final) :
        t \in UNION { [1..n -> LineTexts] : n \in 0..MaxLines },
        eol \in Terminators, final \in BOOLEAN }

\* the keys a caller may ask to remove
KeyPool == {"a", "b"}

NoFile == [exists |-> FALSE, data |-> ""]
NoReport == [written |-> FALSE, unused |-> {}]
File(d) == [exists |-> TRUE, data |-> d]

Msg(t, k) == [tag |-> t, n |-> k]

----------------------------------------------------------------------------
(* LocalizationCleaner.remove_unused_localizations *)

RECURSIVE FilterFromCountsEveryEntry(_, _, _, _, _)
\* FilterFrom with removed_count += 1 moved out of the test of line 306
FilterFromCountsEveryEntry(ls, i, keys, kept, removed) ==
    IF i > Len(ls) THEN [filtered_lines |-> kept, removed_count |-> removed]
    ELSE LET line == ls[i]
             line_stripped == Strip(line)
             match == MatchEntry(line_stripped)
         IN  IF line_stripped = "" \/ StartsWith(line_stripped, "//")
             THEN FilterFromCountsEveryEntry(ls, i + 1, keys,
                                             Append(kept, line), removed)
             ELSE IF match.ok /\ match.key \in keys
                  THEN FilterFromCountsEveryEntry(ls, i + 1, keys, kept,
                                                  removed + 1)
                  ELSE FilterFromCountsEveryEntry(ls, i + 1, keys,
                           Append(kept, line),
                           IF match.ok THEN removed + 1 ELSE removed)

RECURSIVE FilterFrom(_, _, _, _, _)
\* the loop of lines 294-312 from line i on
FilterFrom(ls, i, keys, kept, removed) ==
    IF i > Len(ls) THEN [filtered_lines |-> kept, removed_count |-> removed]
    ELSE LET line == ls[i]
             line_stripped == Strip(line)
             match == MatchEntry(line_stripped)
         IN  IF line_stripped = "" \/ StartsWith(line_stripped, "//")
             THEN FilterFrom(ls, i + 1, keys, Append(kept, line), removed)
             ELSE IF match.ok /\ match.key \in keys
                  THEN FilterFrom(ls, i + 1, keys, kept, removed + 1)
                  ELSE FilterFrom(ls, i + 1, keys, Append(kept, line), removed)

FilterLines(ls, keys) == FilterFrom(ls, 1, keys, <<>>, 0)

\* RemoveEnter without the dry_run test of line 276
RemoveEnterIgnoresDryRun ==
    /\ pc = "rm_enter"
    /\ IF unused_keys = {}
       THEN /\ out' = Append(out, Msg("no_unused", 0))
            /\ ret' = TRUE
            /\ pc' = "done"
       ELSE /\ pc' = "rm_read"
            /\ UNCHANGED <<out, ret>>
    /\ UNCHANGED <<runVars, camelVars, scanVars, diffVars>>
    /\ UNCHANGED <<entry, dry_run, unused_keys, localizable_file, backup_file,
                   target_before, backup_before, lines, filtered_lines,
                   removed_count, widx>>

\* lines 272-278: the two early returns, else on to the try block
RemoveEnter ==
    /\ pc = "rm_enter"
    /\ IF unused_keys = {}
       THEN /\ out' = Append(out, Msg("no_unused", 0))
            /\ ret' = TRUE
            /\ pc' = "done"
       ELSE IF dry_run
            THEN /\ out' = Append(out, Msg("dry_run", Cardinality(unused_keys)))
                 /\ ret' = TRUE
                 /\ pc' = "done"
            ELSE /\ pc' = "rm_read"
                 /\ UNCHANGED <<out, ret>>
    /\ UNCHANGED <<runVars, camelVars, scanVars, diffVars>>
    /\ UNCHANGED <<entry, dry_run, unused_keys, localizable_file, backup_file,
                   target_before, backup_before, lines, filtered_lines,
                   removed_count, widx>>

\* lines 281-282
ReadTarget ==
    /\ pc = "rm_read"
    /\ localizable_file.exists
    /\ lines' = ReadLines(localizable_file.data)
    /\ pc' = "rm_open_backup"
    /\ UNCHANGED <<runVars, camelVars, scanVars, diffVars>>
    /\ UNCHANGED <<entry, dry_run, unused_keys, localizable_file, backup_file,
                   target_before, backup_before, filtered_lines, removed_count,
                   widx, ret, out>>

\* line 286: open(backup_file, 'w') creates or truncates the backup
OpenBackup ==
    /\ pc = "rm_open_backup"
    /\ backup_file' = File("")
    /\ widx' = 1
    /\ pc' = "rm_write_backup"
    /\ UNCHANGED <<runVars, camelVars, scanVars, diffVars>>
    /\ UNCHANGED <<entry, dry_run, unused_keys, localizable_file, target_before,
                   backup_before, lines, filtered_lines, removed_count, ret,
                   out>>

\* line 287: f.writelines(lines), one line reaching the disk at a time
WriteBackupLine ==
    /\ pc = "rm_write_backup"
    /\ widx <= Len(lines)
    /\ backup_file' = File(backup_file.data \o EncodeNewlines(lines[widx]))
    /\ widx' = widx + 1
    /\ UNCHANGED <<runVars, camelVars, scanVars, diffVars>>
    /\ UNCHANGED <<entry, dry_run, unused_keys, localizable_file, target_before,
                   backup_before, pc, lines, filtered_lines, removed_count,
                   ret, out>>

\* lines 287-288: the with block closes the backup, then the print
CloseBackup ==
    /\ pc = "rm_write_backup"
    /\ widx > Len(lines)
    /\ out' = Append(out, Msg("backup_created", 0))
    /\ pc' = "rm_filter"
    /\ UNCHANGED <<runVars, camelVars, scanVars, diffVars>>
    /\ UNCHANGED <<entry, dry_run, unused_keys, localizable_file, backup_file,
                   target_before, backup_before, lines, filtered_lines,
                   removed_count, widx, ret>>

\* lines 291-312
Filter ==
    /\ pc = "rm_filter"
    /\ LET r == FilterLines(lines, unused_keys)
       IN  /\ filtered_lines' = r.filtered_lines
           /\ removed_count' = r.removed_count
    /\ pc' = "rm_open_target"
    /\ UNCHANGED <<runVars, camelVars, scanVars, diffVars>>
    /\ UNCHANGED <<entry, dry_run, unused_keys, localizable_file, backup_file,
                   target_before, backup_before, lines, widx, ret, out>>

\* line 315: open(localizable_file, 'w') truncates the target
OpenTarget ==
    /\ pc = "rm_open_target"
    /\ localizable_file' = File("")
    /\ widx' = 1
    /\ pc' = "rm_write_target"
    /\ UNCHANGED <<runVars, camelVars, scanVars, diffVars>>
    /\ UNCHANGED <<entry, dry_run, unused_keys, backup_file, target_before,
                   backup_before, lines, filtered_lines, removed_count, ret,
                   out>>

\* line 316: f.writelines(filtered_lines), one line at a time
WriteTargetLine ==
    /\ pc = "rm_write_target"
    /\ widx <= Len(filtered_lines)
    /\ localizable_file' =
           File(localizable_file.data \o EncodeNewlines(filtered_lines[widx]))
    /\ widx' = widx + 1
    /\ UNCHANGED <<runVars, camelVars, scanVars, diffVars>>
    /\ UNCHANGED <<entry, dry_run, unused_keys, backup_file, target_before,
                   backup_before, pc, lines, filtered_lines, removed_count,
                   ret, out>>

\* lines 316-319: the with block closes the target, the print, return True
CloseTarget ==
    /\ pc = "rm_write_target"
    /\ widx > Len(filtered_lines)
    /\ out' = Append(out, Msg("deleted", removed_count))
    /\ ret' = TRUE
    /\ pc' = "done"
    /\ UNCHANGED <<runVars, camelVars, scanVars, diffVars>>
    /\ UNCHANGED <<entry, dry_run, unused_keys, localizable_file, backup_file,
                   target_before, backup_before, lines, filtered_lines,
                   removed_count, widx>>

\* lines 321-323: any Exception raised by an open, a read or a write in the
\* try block (a missing or unreadable target, a full disk, ...) is printed
\* and the method returns False
IOPoints == {"rm_read", "rm_open_backup", "rm_write_backup",
             "rm_open_target", "rm_write_target"}

RemoveFails ==
    /\ pc \in IOPoints
    /\ out' = Append(out, Msg("error", 0))
    /\ ret' = FALSE
    /\ pc' = "done"
    /\ UNCHANGED <<runVars, camelVars, scanVars, diffVars>>
    /\ UNCHANGED <<entry, dry_run, unused_keys, localizable_file, backup_file,
                   target_before, backup_before, lines, filtered_lines,
                   removed_count, widx>>

\* the process is interrupted (KeyboardInterrupt is no Exception, so line
\* 321 does not catch it; main exits at line 474) or killed
Interrupt ==
    /\ pc \notin {"done", "run_done", "crashed", "interrupted"}
    /\ pc' = "interrupted"
    /\ UNCHANGED <<runVars, camelVars, scanVars, diffVars>>
    /\ UNCHANGED <<entry, dry_run, unused_keys, localizable_file, backup_file,
                   target_before, backup_before, lines, filtered_lines,
                   removed_count, widx, ret, out>>

----------------------------------------------------------------------------
(* LocalizationCleaner.snake_to_camel *)

\* str.upper() and str.lower() on one character the model draws from
Upper(c) ==
    CASE c = "a" -> "A" [] c = "b" -> "B" [] c = "c" -> "C"
      [] c = "k" -> "K" [] c = "x" -> "X" [] c = "y" -> "Y"
      [] c = "n" -> "N" [] OTHER -> c

Lower(c) ==
    CASE c = "A" -> "a" [] c = "B" -> "b" [] c = "C" -> "c"
      [] c = "K" -> "k" [] c = "X" -> "x" [] c = "Y" -> "y"
      [] c = "N" -> "n" [] OTHER -> c

RECURSIVE LowerStr(_)
LowerStr(s) ==
    IF Len(s) = 0 THEN "" ELSE Lower(CharAt(s, 1)) \o LowerStr(From(s, 2))

\* str.capitalize(): the first character upper-cased, the rest lower-cased
Capitalize(word) ==
    IF Len(word) = 0 THEN ""
    ELSE Upper(CharAt(word, 1)) \o LowerStr(From(word, 2))

RECURSIVE SplitFrom(_, _, _, _)
SplitFrom(s, sep, cur, acc) ==
    IF Len(s) = 0 THEN Append(acc, cur)
    ELSE IF CharAt(s, 1) = sep
         THEN SplitFrom(From(s, 2), sep, "", Append(acc, cur))
         ELSE SplitFrom(From(s, 2), sep, cur \o CharAt(s, 1), acc)

\* str.split(sep) with a one-character separator
Split(s, sep) == SplitFrom(s, sep, "", <<>>)

RECURSIVE JoinWith(_, _)
\* sep.join(parts)
JoinWith(parts, sep) ==
    IF Len(parts) = 0 THEN ""
    ELSE IF Len(parts) = 1 THEN parts[1]
    ELSE parts[1] \o sep \o JoinWith(Tail(parts), sep)

RECURSIVE CapitalizeAll(_)
\* ''.join(word.capitalize() for word in words)
CapitalizeAll(words) ==
    IF Len(words) = 0 THEN ""
    ELSE Capitalize(words[1]) \o CapitalizeAll(Tail(words))

\* lines 121-128: the last part
CamelLast(part) ==
    IF Contains(part, "_")
    THEN LET sub_parts == Split(part, "_")
         IN  sub_parts[1] \o CapitalizeAll(Tail(sub_parts))
    ELSE part

\* line 131: every other part
TitleFirst(part) ==
    IF Len(part) > 0 THEN Upper(CharAt(part, 1)) \o From(part, 2) ELSE part

snake_to_camel(s) ==
    LET parts == Split(s, ".")
        result_parts == [i \in 1..Len(parts) |->
                            IF i = Len(parts) THEN CamelLast(parts[i])
                            ELSE TitleFirst(parts[i])]
    IN  JoinWith(result_parts, ".")

\* one call of snake_to_camel
CallTransform ==
    /\ camel_calls < MaxCalls
    /\ camel_again' = snake_to_camel(snake_str)
    /\ camel_result' = IF camel_calls = 0 THEN camel_again' ELSE camel_result
    /\ camel_calls' = camel_calls + 1
    /\ UNCHANGED <<snake_str, cleanVars, scanVars, diffVars>>

----------------------------------------------------------------------------
(* LocalizationCleaner.search_in_file and is_localization_used *)

\* a source file: the suffix of its path, its text, and whether open() and
\* read() succeed on it
SourceFile(sfx, text, ok) == [suffix |-> sfx, content |-> text, readable |-> ok]

\* search_in_file answering True from its except block
search_in_file_error_is_match(file, search_term) ==
    IF file.readable THEN Contains(file.content, search_term) ELSE TRUE

\* lines 195-202: a read error is caught and answered with False
search_in_file(file, search_term) ==
    IF file.readable THEN Contains(file.content, search_term) ELSE FALSE

Result(used, where, how) ==
    [is_used |-> used, used_files |-> where, usage_type |-> how]

RECURSIVE NativeFromNoFallback(_, _, _, _)
\* NativeFrom without the Objective-C test on .swift files (lines 230-232)
NativeFromNoFallback(files, i, native_term_oc, native_term_swift) ==
    IF i > Len(files) THEN Result(FALSE, <<>>, "")
    ELSE IF files[i].suffix \in {".m", ".mm", ".h"}
         THEN IF search_in_file(files[i], native_term_oc)
              THEN Result(TRUE, <<i>>, "NSLocalizedString")
              ELSE NativeFromNoFallback(files, i + 1, native_term_oc,
                                        native_term_swift)
         ELSE IF /\ files[i].suffix = ".swift"
                 /\ search_in_file(files[i], native_term_swift)
              THEN Result(TRUE, <<i>>, "NSLocalizedString")
              ELSE NativeFromNoFallback(files, i + 1, native_term_oc,
                                        native_term_swift)

RECURSIVE NativeFrom(_, _, _, _)
\* lines 222-234: the second loop from file i on; used_files holds the
\* position of the file in swift_files
NativeFrom(files, i, native_term_oc, native_term_swift) ==
    IF i > Len(files) THEN Result(FALSE, <<>>, "")
    ELSE IF files[i].suffix \in {".m", ".mm", ".h"}
         THEN IF search_in_file(files[i], native_term_oc)
              THEN Result(TRUE, <<i>>, "NSLocalizedString")
              ELSE NativeFrom(files, i + 1, native_term_oc, native_term_swift)
         ELSE IF files[i].suffix = ".swift"
              THEN IF search_in_file(files[i], native_term_swift)
                   THEN Result(TRUE, <<i>>, "NSLocalizedString")
                   ELSE IF search_in_file(files[i], native_term_oc)
                        THEN Result(TRUE, <<i>>, "NSLocalizedString")
                        ELSE NativeFrom(files, i + 1, native_term_oc,
                                        native_term_swift)
              ELSE NativeFrom(files, i + 1, native_term_oc, native_term_swift)

RECURSIVE OnePassFrom(_, _, _, _)
\* one loop that tests all the forms on a file before it goes to the next
OnePassFrom(files, i, key, swiftgen_term) ==
    IF i > Len(files) THEN Result(FALSE, <<>>, "")
    ELSE IF search_in_file(files[i], swiftgen_term)
         THEN Result(TRUE, <<i>>, "SwiftGen")
         ELSE LET native == NativeFrom(<<files[i]>>, 1,
                                "NSLocalizedString(@\"" \o key \o "\"",
                                "NSLocalizedString(\"" \o key \o "\"")
              IN  IF native.is_used
                  THEN Result(TRUE, <<i>>, "NSLocalizedString")
                  ELSE OnePassFrom(files, i + 1, key, swiftgen_term)

RECURSIVE SwiftGenFrom(_, _, _, _)
\* lines 211-214: the first loop from file i on, then the second loop
SwiftGenFrom(files, i, key, swiftgen_term) ==
    IF i > Len(files)
    THEN NativeFrom(files, 1, "NSLocalizedString(@\"" \o key \o "\"",
                    "NSLocalizedString(\"" \o key \o "\"")
    ELSE IF search_in_file(files[i], swiftgen_term)
         THEN Result(TRUE, <<i>>, "SwiftGen")
         ELSE SwiftGenFrom(files, i + 1, key, swiftgen_term)

\* is_localization_used with its two loops merged into one
is_localization_used_one_pass(key, camel_case_key, files) ==
    OnePassFrom(files, 1, key, "L10n." \o camel_case_key)

is_localization_used(key, camel_case_key, files) ==
    SwiftGenFrom(files, 1, key, "L10n." \o camel_case_key)

\* one call of is_localization_used, with the camel_case_key the parser
\* pairs with the key (line 163)
Classify ==
    /\ scan_pc = "start"
    /\ scan_result' = is_localization_used(original_key,
                          snake_to_camel(original_key), swift_files)
    /\ scan_pc' = "done"
    /\ UNCHANGED <<original_key, swift_files, cleanVars, camelVars, diffVars>>

----------------------------------------------------------------------------
(* check_missing_localizations.py *)

RECURSIVE SplitLinesFrom(_, _, _)
\* str.splitlines(): the line boundaries among the characters the model
\* draws from are LF, CR, CR LF and FF; the boundary is dropped
SplitLinesFrom(text, cur, acc) ==
    IF Len(text) = 0 THEN (IF cur = "" THEN acc ELSE Append(acc, cur))
    ELSE IF CharAt(text, 1) = CR /\ Len(text) >= 2 /\ CharAt(text, 2) = LF
         THEN SplitLinesFrom(From(text, 3), "", Append(acc, cur))
    ELSE IF CharAt(text, 1) \in {LF, CR, FF}
         THEN SplitLinesFrom(From(text, 2), "", Append(acc, cur))
    ELSE SplitLinesFrom(From(text, 2), cur \o CharAt(text, 1), acc)

SplitLines(text) == SplitLinesFrom(text, "", <<>>)

\* the pattern of line 35, matched from the start of s: a quoted key in
\* which a backslash escapes the next character, an equals sign with
\* optional whitespace around it, a quote, and later on the line a quote
\* followed by a semicolon.  [ok, key]
DiffMatch(s) ==
    LET k2 == ValueEnd(s, 2)
        e1 == SkipWs(s, k2 + 1)
        q3 == SkipWs(s, e1 + 1)
    IN  IF /\ Len(s) >= 1 /\ CharAt(s, 1) = QUOTE
           /\ k2 # 0
           /\ e1 <= Len(s) /\ CharAt(s, e1) = "="
           /\ q3 <= Len(s) /\ CharAt(s, q3) = QUOTE
           /\ \E j \in (q3 + 1)..(Len(s) - 1) :
                 CharAt(s, j) = QUOTE /\ CharAt(s, j + 1) = ";"
        THEN [ok |-> TRUE, key |-> SubSeq(s, 2, k2 - 1)]
        ELSE [ok |-> FALSE, key |-> ""]

RECURSIVE DiffKeysFrom(_, _, _)
\* lines 37-44 from line i on
DiffKeysFrom(ls, i, keys) ==
    IF i > Len(ls) THEN keys
    ELSE LET line == Strip(ls[i])
         IN  IF line = "" \/ StartsWith(line, "//")
             THEN DiffKeysFrom(ls, i + 1, keys)
             ELSE IF DiffMatch(line).ok
                  THEN DiffKeysFrom(ls, i + 1, keys \cup {DiffMatch(line).key})
                  ELSE DiffKeysFrom(ls, i + 1, keys)

parse_strings_file_content(content) ==
    DiffKeysFrom(SplitLines(content), 1, {})

\* lines 52-61: None when the file does not exist or cannot be read
read_file_content(file) ==
    IF file.exists /\ file.readable
    THEN [ok |-> TRUE, content |-> UniversalNewlines(file.data)]
    ELSE [ok |-> FALSE, content |-> ""]

\* the code point of a character the model draws from
Ord(c) ==
    CASE c = TAB -> 9 [] c = LF -> 10 [] c = FF -> 12 [] c = CR -> 13
      [] c = " " -> 32 [] c = QUOTE -> 34 [] c = "-" -> 45 [] c = "." -> 46
      [] c = "/" -> 47 [] c = "0" -> 48 [] c = "1" -> 49 [] c = ";" -> 59
      [] c = "=" -> 61 [] c = "A" -> 65 [] c = "B" -> 66 [] c = "C" -> 67
      [] c = "K" -> 75 [] c = "X" -> 88 [] c = BSL -> 92 [] c = "_" -> 95
      [] c = "a" -> 97 [] c = "b" -> 98 [] c = "c" -> 99 [] c = "k" -> 107
      [] c = "x" -> 120

RECURSIVE StrLess(_, _)
\* a < b on two strs
StrLess(a, b) ==
    IF Len(b) = 0 THEN FALSE
    ELSE IF Len(a) = 0 THEN TRUE
    ELSE IF Ord(CharAt(a, 1)) # Ord(CharAt(b, 1))
         THEN Ord(CharAt(a, 1)) < Ord(CharAt(b, 1))
         ELSE StrLess(From(a, 2), From(b, 2))

RECURSIVE Sorted(_)
\* sorted(list(keys))
Sorted(keys) ==
    IF keys = {} THEN <<>>
    ELSE LET least == CHOOSE k \in keys :
                          \A other \in keys \ {k} : StrLess(k, other)
         IN  <<least>> \o Sorted(keys \ {least})

RECURSIVE Descending(_)
Descending(keys) ==
    IF keys = {} THEN <<>>
    ELSE LET greatest == CHOOSE k \in keys :
                             \A other \in keys \ {k} : StrLess(other, k)
         IN  <<greatest>> \o Descending(keys \ {greatest})

\* compare_and_display_missing_keys listing the keys the other way round
compare_and_display_reversed(base, compare_keys) ==
    LET missing_keys == base \ compare_keys
    IN  [printed |-> Descending(missing_keys),
         count |-> Cardinality(missing_keys)]

\* lines 63-76: [printed, count], printed being the keys shown, in order
compare_and_display_missing_keys(base, compare_keys) ==
    LET missing_keys == base \ compare_keys
    IN  [printed |-> Sorted(missing_keys), count |-> Cardinality(missing_keys)]

\* lines 97-106
ReadBase ==
    /\ diff_pc = "read_base"
    /\ LET base_content == read_file_content(base_file)
           keys == parse_strings_file_content(base_content.content)
       IN  IF ~base_content.ok \/ keys = {}
           THEN /\ main_ret' = 1
                /\ diff_pc' = "returned"
                /\ UNCHANGED base_keys
           ELSE /\ base_keys' = keys
                /\ diff_pc' = "read_compare1"
                /\ UNCHANGED main_ret
    /\ UNCHANGED <<base_file, compare_file1, compare_file2, compare2_given,
                   total_missing, shown, exit_code>>
    /\ UNCHANGED <<cleanVars, camelVars, scanVars>>

\* lines 113-123
ReadCompare1 ==
    /\ diff_pc = "read_compare1"
    /\ LET compare1_content == read_file_content(compare_file1)
           r == compare_and_display_missing_keys(base_keys,
                    parse_strings_file_content(compare1_content.content))
       IN  IF ~compare1_content.ok
           THEN /\ main_ret' = 1
                /\ diff_pc' = "returned"
                /\ UNCHANGED <<total_missing, shown>>
           ELSE /\ total_missing' = r.count
                /\ shown' = Append(shown, r.printed)
                /\ diff_pc' = "read_compare2"
                /\ UNCHANGED main_ret
    /\ UNCHANGED <<base_file, compare_file1, compare_file2, compare2_given,
                   base_keys, exit_code>>
    /\ UNCHANGED <<cleanVars, camelVars, scanVars>>

\* lines 126-138
ReadCompare2 ==
    /\ diff_pc = "read_compare2"
    /\ LET compare2_content == read_file_content(compare_file2)
           r == compare_and_display_missing_keys(base_keys,
                    parse_strings_file_content(compare2_content.content))
       IN  IF compare2_given /\ compare2_content.ok
           THEN /\ total_missing' = total_missing + r.count
                /\ shown' = Append(shown, r.printed)
           ELSE UNCHANGED <<total_missing, shown>>
    /\ diff_pc' = "summary"
    /\ UNCHANGED <<base_file, compare_file1, compare_file2, compare2_given,
                   base_keys, main_ret, exit_code>>
    /\ UNCHANGED <<cleanVars, camelVars, scanVars>>

\* lines 141-145
Summary ==
    /\ diff_pc = "summary"
    /\ main_ret' = IF total_missing = 0 THEN 0 ELSE 1
    /\ diff_pc' = "returned"
    /\ UNCHANGED <<base_file, compare_file1, compare_file2, compare2_given,
                   base_keys, total_missing, shown, exit_code>>
    /\ UNCHANGED <<cleanVars, camelVars, scanVars>>

\* lines 147-148: the script calls main() and drops what it returns, so the
\* interpreter ends with status 0
ScriptEnds ==
    /\ diff_pc = "returned"
    /\ exit_code' = 0
    /\ diff_pc' = "exited"
    /\ UNCHANGED <<base_file, compare_file1, compare_file2, compare2_given,
                   base_keys, total_missing, shown, main_ret>>
    /\ UNCHANGED <<cleanVars, camelVars, scanVars>>

----------------------------------------------------------------------------
(* LocalizationCleaner.parse_localizable_strings, find_unused_localizations *)
(* and run                                                                  *)

\* Put with the first line of a key kept and the later ones ignored
PutKeepsFirst(table, key, entry_) ==
    [k \in (DOMAIN table) \cup {key} |->
        IF k \in DOMAIN table THEN table[k] ELSE entry_]

\* localizations[key] = (camel_case_key, value), a later line replacing an
\* earlier one with the same key
Put(table, key, entry_) ==
    [k \in (DOMAIN table) \cup {key} |-> IF k = key THEN entry_ ELSE table[k]]

RECURSIVE ParseFrom(_, _, _, _)
\* lines 152-171 from line number i on: [localizations, warnings], warnings
\* being the line numbers the format warning was printed for
ParseFrom(ls, i, table, warned) ==
    IF i > Len(ls) THEN [localizations |-> table, warnings |-> warned]
    ELSE LET line == Strip(ls[i])
             match == MatchEntry(line)
         IN  IF line = "" \/ StartsWith(line, "//")
             THEN ParseFrom(ls, i + 1, table, warned)
             ELSE IF match.ok
                  THEN ParseFrom(ls, i + 1,
                           Put(table, match.key,
                               [camel |-> snake_to_camel(match.key),
                                value |-> match.value]),
                           warned)
                  ELSE IF /\ Contains(line, QUOTE)
                          /\ Contains(line, "=")
                          /\ Contains(line, ";")
                       THEN ParseFrom(ls, i + 1, table, Append(warned, i))
                       ELSE ParseFrom(ls, i + 1, table, warned)

\* lines 145-174 on the raw content of an existing file
parse_localizable_strings(raw) ==
    ParseFrom(SplitLines(UniversalNewlines(raw)), 1, <<>>, <<>>)

\* lines 241-268: the keys is_localization_used reports as not used
find_unused_localizations(table, files) ==
    { k \in DOMAIN table :
        ~is_localization_used(k, table[k].camel, files).is_used }

\* lines 378-386: parse; a missing file raises FileNotFoundError inside the
\* try block; an empty table ends the run
RunParse ==
    /\ pc = "run_parse"
    /\ IF ~localizable_file.exists
       THEN /\ out' = Append(out, Msg("parse_failed", 0))
            /\ run_ret' = "False"
            /\ pc' = "run_done"
            /\ UNCHANGED localizations
       ELSE LET r == parse_localizable_strings(localizable_file.data)
                n == Cardinality(DOMAIN r.localizations)
                printed == [i \in 1..Len(r.warnings) |->
                               Msg("warning", r.warnings[i])]
            IN  /\ localizations' = r.localizations
                /\ IF n = 0
                   THEN /\ out' = out \o printed
                               \o <<Msg("parsed", n), Msg("no_entries", 0)>>
                        /\ run_ret' = "False"
                        /\ pc' = "run_done"
                   ELSE /\ out' = out \o printed \o <<Msg("parsed", n)>>
                        /\ pc' = "run_find"
                        /\ UNCHANGED run_ret
    /\ UNCHANGED <<entry, dry_run, unused_keys, localizable_file, backup_file,
                   target_before, backup_before, lines, filtered_lines,
                   removed_count, widx, ret, unused, report>>
    /\ UNCHANGED <<confirm, camelVars, scanVars, diffVars>>

\* lines 380-382: the read raises (the file cannot be opened or decoded)
RunParseFails ==
    /\ pc = "run_parse"
    /\ localizable_file.exists
    /\ out' = Append(out, Msg("parse_failed", 0))
    /\ run_ret' = "False"
    /\ pc' = "run_done"
    /\ UNCHANGED <<entry, dry_run, unused_keys, localizable_file, backup_file,
                   target_before, backup_before, lines, filtered_lines,
                   removed_count, widx, ret, localizations, unused, report>>
    /\ UNCHANGED <<confirm, camelVars, scanVars, diffVars>>

\* line 389
RunFind ==
    /\ pc = "run_find"
    /\ unused' = find_unused_localizations(localizations, swift_files)
    /\ pc' = "run_report"
    /\ UNCHANGED <<entry, dry_run, unused_keys, localizable_file, backup_file,
                   target_before, backup_before, lines, filtered_lines,
                   removed_count, widx, ret, out, localizations, report,
                   run_ret>>
    /\ UNCHANGED <<confirm, camelVars, scanVars, diffVars>>

\* line 392: generate_report writes the report file, which lists the unused
\* entries (lines 349-353)
RunReport ==
    /\ pc = "run_report"
    /\ report' = [written |-> TRUE, unused |-> unused]
    /\ out' = Append(out, Msg("report_written", 0))
    /\ pc' = "run_decide"
    /\ UNCHANGED <<entry, dry_run, unused_keys, localizable_file, backup_file,
                   target_before, backup_before, lines, filtered_lines,
                   removed_count, widx, ret, localizations, unused, run_ret>>
    /\ UNCHANGED <<confirm, camelVars, scanVars, diffVars>>

\* lines 395-422 up to the prompt
RunDecide ==
    /\ pc = "run_decide"
    /\ IF unused = {}
       THEN /\ out' = out \o <<Msg("result", 0), Msg("nothing_to_clean", 0)>>
            /\ run_ret' = "True"
            /\ pc' = "run_done"
       ELSE IF dry_run
            THEN /\ out' = out \o <<Msg("result", Cardinality(unused)),
                                    Msg("dry_run_would_delete",
                                        Cardinality(unused))>>
                 /\ run_ret' = "True"
                 /\ pc' = "run_done"
            ELSE /\ out' = Append(out, Msg("result", Cardinality(unused)))
                 /\ pc' = "run_confirm"
                 /\ UNCHANGED run_ret
    /\ UNCHANGED <<entry, dry_run, unused_keys, localizable_file, backup_file,
                   target_before, backup_before, lines, filtered_lines,
                   removed_count, widx, ret, localizations, unused, report>>
    /\ UNCHANGED <<confirm, camelVars, scanVars, diffVars>>

\* what the user may type at the prompt
Answers == {"y", "Y", "n", "yes", ""}

\* RunConfirm without the test of line 411: the remover is called whatever
\* the answer
RunConfirmAnyAnswer ==
    /\ pc = "run_confirm"
    /\ \E answer \in Answers :
          /\ confirm' = answer
          /\ unused_keys' = unused
          /\ pc' = "rm_enter"
          /\ UNCHANGED <<out, run_ret>>
    /\ UNCHANGED <<entry, dry_run, localizable_file, backup_file,
                   target_before, backup_before, lines, filtered_lines,
                   removed_count, widx, ret, localizations, unused, report>>
    /\ UNCHANGED <<camelVars, scanVars, diffVars>>

\* lines 410-418: the prompt; on y the remover is called with the unused keys
RunConfirm ==
    /\ pc = "run_confirm"
    /\ \E answer \in Answers :
          /\ confirm' = answer
          /\ IF LowerStr(answer) = "y"
             THEN /\ unused_keys' = unused
                  /\ pc' = "rm_enter"
                  /\ UNCHANGED <<out, run_ret>>
             ELSE /\ out' = Append(out, Msg("cancelled", 0))
                  /\ run_ret' = "True"
                  /\ pc' = "run_done"
                  /\ UNCHANGED unused_keys
    /\ UNCHANGED <<entry, dry_run, localizable_file, backup_file,
                   target_before, backup_before, lines, filtered_lines,
                   removed_count, widx, ret, localizations, unused, report>>
    /\ UNCHANGED <<camelVars, scanVars, diffVars>>

\* lines 412-416: the remover has returned and run returns its answer
RunAfterRemove ==
    /\ pc = "done"
    /\ entry = "run"
    /\ run_ret' = IF ret THEN "True" ELSE "False"
    /\ out' = IF ret THEN Append(out, Msg("cleaned", 0)) ELSE out
    /\ pc' = "run_done"
    /\ UNCHANGED <<entry, dry_run, unused_keys, localizable_file, backup_file,
                   target_before, backup_before, lines, filtered_lines,
                   removed_count, widx, ret, localizations, unused, report>>
    /\ UNCHANGED <<confirm, camelVars, scanVars, diffVars>>

\* an exception that run does not catch (the report cannot be written, the
\* prompt meets end of input) reaches main, which exits with 1 (line 475)
RunCrashes ==
    /\ pc \in {"run_report", "run_confirm"}
    /\ pc' = "crashed"
    /\ UNCHANGED <<entry, dry_run, unused_keys, localizable_file, backup_file,
                   target_before, backup_before, lines, filtered_lines,
                   removed_count, widx, ret, out, runVars>>
    /\ UNCHANGED <<camelVars, scanVars, diffVars>>

\* parse_localizable_strings called on its own, lines 140-174: a missing
\* file raises FileNotFoundError, else the warnings and the count are
\* printed and the table is returned
CallParse ==
    /\ pc = "parse_start"
    /\ IF ~localizable_file.exists
       THEN /\ pc' = "parse_raised"
            /\ UNCHANGED <<localizations, out>>
       ELSE LET r == parse_localizable_strings(localizable_file.data)
            IN  /\ localizations' = r.localizations
                /\ out' = out \o [i \in 1..Len(r.warnings) |->
                                     Msg("warning", r.warnings[i])]
                               \o <<Msg("parsed",
                                       Cardinality(DOMAIN r.localizations))>>
                /\ pc' = "parse_done"
    /\ UNCHANGED <<entry, dry_run, unused_keys, localizable_file, backup_file,
                   target_before, backup_before, lines, filtered_lines,
                   removed_count, widx, ret, unused, report, run_ret>>
    /\ UNCHANGED <<confirm, camelVars, scanVars, diffVars>>

\* the parser called on the file remove_unused_localizations has left
\* after it returned True (lines 145-174; the file exists, the remover has
\* just written it)
ParseAfter ==
    /\ entry = "agree"
    /\ pc = "done"
    /\ ret = TRUE
    /\ localizable_file.exists
    /\ LET r == parse_localizable_strings(localizable_file.data)
       IN  /\ localizations' = r.localizations
           /\ out' = out \o [i \in 1..Len(r.warnings) |->
                                Msg("warning", r.warnings[i])]
                          \o <<Msg("parsed",
                                  Cardinality(DOMAIN r.localizations))>>
    /\ pc' = "agree_parsed"
    /\ UNCHANGED <<entry, dry_run, unused_keys, localizable_file, backup_file,
                   target_before, backup_before, lines, filtered_lines,
                   removed_count, widx, ret, unused, report, run_ret>>
    /\ UNCHANGED <<confirm, camelVars, scanVars, diffVars>>

\* remove_unused_localizations called a second time with the same keys
\* (line 270: the same object, the same unused_keys)
RemoveAgain ==
    /\ entry = "agree"
    /\ pc = "agree_parsed"
    /\ entry' = "again"
    /\ pc' = "rm_enter"
    /\ UNCHANGED <<dry_run, unused_keys, localizable_file, backup_file,
                   target_before, backup_before, lines, filtered_lines,
                   removed_count, widx, ret, out, runVars>>
    /\ UNCHANGED <<camelVars, scanVars, diffVars>>

----------------------------------------------------------------------------
(* The inputs of the two functions called on their own *)

\* longest key given to snake_to_camel
MaxKeyLen == 4

RECURSIVE Strings(_, _)
\* every string of at most n characters of the alphabet
Strings(alphabet, n) ==
    IF n = 0 THEN {""}
    ELSE LET shorter == Strings(alphabet, n - 1)
         IN  shorter \cup { c \o t : c \in alphabet, t \in shorter }

CamelKeys == Strings({"a", "B", ".", "_"}, MaxKeyLen)

\* most source files in one scan
MaxFiles == 2

ScanKeys == {"k.a_b", "x"}

Snippets ==
    { "",
      "t = L10n.K.aB",
      "L10n.x",
      "NSLocalizedString(\"k.a_b\", comment: \"\")",
      "NSLocalizedString(@\"k.a_b\", nil)" }

\* the suffixes of the paths rglob finds for search_extensions (line 50); a
\* file named just .swift matches the pattern and has the empty suffix
Suffixes == {".swift", ".m", ".mm", ".h", ""}

SourcePool ==
    { SourceFile(sfx, text, ok) :
        sfx \in Suffixes, text \in Snippets, ok \in BOOLEAN }

SourceLists == UNION { [1..n -> SourcePool] : n \in 0..MaxFiles }

CleanIdle ==
    /\ entry = "none"
    /\ dry_run = FALSE
    /\ unused_keys = {}
    /\ localizable_file = NoFile
    /\ backup_file = NoFile
    /\ target_before = NoFile
    /\ backup_before = NoFile
    /\ pc = "done"
    /\ lines = <<>>
    /\ filtered_lines = <<>>
    /\ removed_count = 0
    /\ widx = 0
    /\ ret = FALSE
    /\ out = <<>>
    /\ localizations = <<>>
    /\ unused = {}
    /\ report = NoReport
    /\ run_ret = "none"
    /\ confirm = "none"

CamelIdle ==
    /\ snake_str = ""
    /\ camel_calls = MaxCalls
    /\ camel_result = ""
    /\ camel_again = ""

ScanIdle ==
    /\ original_key = ""
    /\ swift_files = <<>>
    /\ scan_pc = "idle"
    /\ scan_result = Result(FALSE, <<>>, "")

DiffIdle ==
    /\ base_file = [exists |-> FALSE, readable |-> FALSE, data |-> ""]
    /\ compare_file1 = base_file
    /\ compare_file2 = base_file
    /\ compare2_given = FALSE
    /\ diff_pc = "idle"
    /\ base_keys = {}
    /\ total_missing = 0
    /\ shown = <<>>
    /\ main_ret = -1
    /\ exit_code = -1

\* most lines of the base file and of a comparison file
MaxBaseLines == 3
MaxCompareLines == 1

DiffLineTexts ==
    { "\"b\"=\"1\";",
      "\"ab\" = \"2\";",
      "// \"a\"=\"0\";" }

DiffContents(n) ==
    { Join(t, LF, TRUE) : t \in UNION { [1..m -> DiffLineTexts] : m \in 0..n } }

DiskFiles(n) ==
    { [exists |-> TRUE, readable |-> TRUE, data |-> d] : d \in DiffContents(n) }
    \cup { [exists |-> TRUE, readable |-> FALSE, data |-> ""],
           [exists |-> FALSE, readable |-> FALSE, data |-> ""] }

InitDiff ==
    /\ base_file \in DiskFiles(MaxBaseLines)
    /\ compare_file1 \in DiskFiles(MaxCompareLines)
    /\ compare2_given \in BOOLEAN
    /\ compare_file2 \in IF compare2_given THEN DiskFiles(MaxCompareLines)
                         ELSE {[exists |-> FALSE, readable |-> FALSE,
                                data |-> ""]}
    /\ diff_pc = "read_base"
    /\ base_keys = {}
    /\ total_missing = 0
    /\ shown = <<>>
    /\ main_ret = -1
    /\ exit_code = -1
    /\ CleanIdle
    /\ CamelIdle
    /\ ScanIdle

NextDiff ==
    \/ ReadBase
    \/ ReadCompare1
    \/ ReadCompare2
    \/ Summary
    \/ ScriptEnds

SpecDiff == InitDiff /\ [][NextDiff]_vars

InitCamel ==
    /\ snake_str \in CamelKeys
    /\ camel_calls = 0
    /\ camel_result = ""
    /\ camel_again = ""
    /\ CleanIdle
    /\ ScanIdle
    /\ DiffIdle

SpecCamel == InitCamel /\ [][CallTransform]_vars

InitScan ==
    /\ original_key \in ScanKeys
    /\ swift_files \in SourceLists
    /\ scan_pc = "start"
    /\ scan_result = Result(FALSE, <<>>, "")
    /\ CleanIdle
    /\ CamelIdle
    /\ DiffIdle

SpecScan == InitScan /\ [][Classify]_vars

\* a line that holds a form feed, which str.splitlines() takes for a line
\* boundary and readlines() does not
FormFeedLine == "\"a\"=x;" \o FF \o "\"b\"=\"y\";"

\* the files the parser is called on: those of the cleaner and those with
\* the form feed line first
ParseContents ==
    FileContents \cup { FormFeedLine \o LF \o d : d \in FileContents }

InitParse ==
    /\ entry = "parse"
    /\ dry_run = FALSE
    /\ unused_keys = {}
    /\ localizable_file \in {File(d) : d \in ParseContents} \cup {NoFile}
    /\ target_before = localizable_file
    /\ backup_file = NoFile
    /\ backup_before = NoFile
    /\ pc = "parse_start"
    /\ lines = <<>>
    /\ filtered_lines = <<>>
    /\ removed_count = 0
    /\ widx = 0
    /\ ret = FALSE
    /\ out = <<>>
    /\ localizations = <<>>
    /\ unused = {}
    /\ report = NoReport
    /\ run_ret = "none"
    /\ confirm = "none"
    /\ CamelIdle
    /\ ScanIdle
    /\ DiffIdle

SpecParse == InitParse /\ [][CallParse]_vars

\* most lines of a file that is cleaned and parsed again
MaxAgreeLines == 2

AgreeLineTexts ==
    { "\"a\"=\"x\";",
      "  \"b\" = \"y\" ; ",
      "\"a\"=\"\\\"\";",
      "//c",
      FormFeedLine }

AgreeContents ==
    { Join(t, eol, final) :
        t \in UNION { [1..n -> AgreeLineTexts] : n \in 0..MaxAgreeLines },
        eol \in Terminators, final \in BOOLEAN }

InitAgree ==
    /\ entry = "agree"
    /\ dry_run = FALSE
    /\ unused_keys \in SUBSET KeyPool
    /\ localizable_file \in {File(d) : d \in AgreeContents}
    /\ target_before = localizable_file
    /\ backup_file = NoFile
    /\ backup_before = NoFile
    /\ pc = "rm_enter"
    /\ lines = <<>>
    /\ filtered_lines = <<>>
    /\ removed_count = 0
    /\ widx = 0
    /\ ret = FALSE
    /\ out = <<>>
    /\ localizations = <<>>
    /\ unused = {}
    /\ report = NoReport
    /\ run_ret = "none"
    /\ confirm = "none"
    /\ CamelIdle
    /\ ScanIdle
    /\ DiffIdle

NextAgree ==
    \/ RemoveEnter
    \/ ReadTarget
    \/ OpenBackup
    \/ WriteBackupLine
    \/ CloseBackup
    \/ Filter
    \/ OpenTarget
    \/ WriteTargetLine
    \/ CloseTarget
    \/ RemoveFails
    \/ ParseAfter
    \/ RemoveAgain

SpecAgree == InitAgree /\ [][NextAgree]_vars

----------------------------------------------------------------------------
(* The cleaner's specification *)

\* the source trees run() scans
RunSourceLists ==
    { <<>>,
      <<SourceFile(".swift", "L10n.a", TRUE)>>,
      <<SourceFile(".m", "NSLocalizedString(@\"b\", nil)", TRUE)>>,
      <<SourceFile(".m", "NSLocalizedString(@\"b\", nil)", TRUE),
        SourceFile(".swift", "L10n.a", TRUE)>> }

Init ==
    /\ entry \in {"call", "run"}
    /\ dry_run \in BOOLEAN
    /\ localizable_file \in {File(d) : d \in FileContents} \cup {NoFile}
    /\ target_before = localizable_file
    /\ backup_file \in {NoFile, File("old")}
    /\ backup_before = backup_file
    /\ IF entry = "call"
       THEN /\ unused_keys \in SUBSET KeyPool
            /\ swift_files = <<>>
            /\ pc = "rm_enter"
       ELSE /\ unused_keys = {}
            /\ swift_files \in RunSourceLists
            /\ pc = "run_parse"
    /\ lines = <<>>
    /\ filtered_lines = <<>>
    /\ removed_count = 0
    /\ widx = 0
    /\ ret = FALSE
    /\ out = <<>>
    /\ localizations = <<>>
    /\ unused = {}
    /\ report = NoReport
    /\ run_ret = "none"
    /\ confirm = "none"
    /\ snake_str = ""
    /\ camel_calls = MaxCalls
    /\ camel_result = ""
    /\ camel_again = ""
    /\ original_key = ""
    /\ scan_pc = "idle"
    /\ scan_result = Result(FALSE, <<>>, "")
    /\ DiffIdle

Next ==
    \/ RemoveEnter
    \/ ReadTarget
    \/ OpenBackup
    \/ WriteBackupLine
    \/ CloseBackup
    \/ Filter
    \/ OpenTarget
    \/ WriteTargetLine
    \/ CloseTarget
    \/ RemoveFails
    \/ Interrupt
    \/ RunParse
    \/ RunParseFails
    \/ RunFind
    \/ RunReport
    \/ RunDecide
    \/ RunConfirm
    \/ RunAfterRemove
    \/ RunCrashes

Spec == Init /\ [][Next]_vars

----------------------------------------------------------------------------
(* Reference definitions used by the properties *)

RECURSIVE RawSplit(_, _, _)
\* the lines of a file as they are on disk, each with the terminator it has
\* there (LF, CR LF or CR)
RawSplit(raw, cur, acc) ==
    IF Len(raw) = 0 THEN (IF cur = "" THEN acc ELSE Append(acc, cur))
    ELSE IF CharAt(raw, 1) = LF
         THEN RawSplit(From(raw, 2), "", Append(acc, cur \o LF))
    ELSE IF CharAt(raw, 1) = CR
         THEN IF Len(raw) >= 2 /\ CharAt(raw, 2) = LF
              THEN RawSplit(From(raw, 3), "", Append(acc, cur \o CR \o LF))
              ELSE RawSplit(From(raw, 2), "", Append(acc, cur \o CR))
    ELSE RawSplit(From(raw, 2), cur \o CharAt(raw, 1), acc)

RawLines(raw) == RawSplit(raw, "", <<>>)

\* the line matches the entry pattern with a key of the set
IsEntryOf(line, keys) == MatchEntry(line).ok /\ MatchEntry(line).key \in keys

RECURSIVE ConcatKept(_, _)
\* the lines that are no entry of the set, concatenated in order
ConcatKept(ls, keys) ==
    IF Len(ls) = 0 THEN ""
    ELSE (IF IsEntryOf(ls[1], keys) THEN "" ELSE ls[1])
         \o ConcatKept(Tail(ls), keys)

\* how many lines the file has lost since the run began
LinesRemoved ==
    Len(RawLines(original)) - Len(RawLines(localizable_file.data))

LastOut == IF Len(out) = 0 THEN Msg("", 0) ELSE out[Len(out)]

\* remove_unused_localizations returned after rewriting the target
Rewrote == pc = "done" /\ LastOut.tag = "deleted"

\* a Python bool is an int: True == 1 and False == 0
BoolAsInt(b) == IF b THEN 1 ELSE 0

----------------------------------------------------------------------------
(* Properties of remove_unused_localizations *)

\* C1: in a destructive run, whenever the content of the target file differs
\* from its original content (also at a point where the run is interrupted),
\* the backup file holds the original content.
C1_BackupHoldsOriginal ==
    localizable_file.data # original => backup_file = File(original)

\* C1, for the part that the code does keep: the target is first written
\* only after the backup is complete, and the backup then holds the original
\* content as text mode decoded it (CR LF and CR read as LF).
C1_BackupHoldsDecodedOriginal ==
    localizable_file.data # original
        => backup_file = File(UniversalNewlines(original))

\* C2: in preview mode (dry_run true) nothing is written: the target file
\* and the backup file stay as they were when the run began, whatever the
\* file and the key set, and the unused keys are still reported as removable
\* (the dry-run line with their number, and in run() the report file that
\* lists them).
C2_DryRunWritesNothing ==
    dry_run =>
        /\ localizable_file = target_before
        /\ backup_file = backup_before
        /\ (pc = "done" /\ unused_keys # {})
               => /\ ret = TRUE
                  /\ LastOut = Msg("dry_run", Cardinality(unused_keys))
        /\ (pc = "run_done" /\ unused # {})
               => /\ run_ret = "True"
                  /\ LastOut = Msg("dry_run_would_delete", Cardinality(unused))
                  /\ report = [written |-> TRUE, unused |-> unused]

\* C2 witness: a preview run() over a file with two entries that no source
\* file refers to has ended, both keys reported, the file as it was
C2_Witness ==
    /\ dry_run
    /\ entry = "run"
    /\ pc = "run_done"
    /\ unused = {"a", "b"}
    /\ LastOut = Msg("dry_run_would_delete", 2)
    /\ localizable_file = target_before
    /\ localizable_file.exists

\* C3: the content written back is the original line sequence with exactly
\* the lines that match the entry pattern with a key of the removal set
\* deleted, every other line kept byte for byte with its line terminator.
C3_KeepsOtherLinesVerbatim ==
    Rewrote => localizable_file.data = ConcatKept(RawLines(original), unused_keys)

\* C3, restricted to files that hold no CR: there the rewrite is exact.
C3_ExactWithoutCR ==
    (Rewrote /\ ~Contains(original, CR))
        => localizable_file.data = ConcatKept(RawLines(original), unused_keys)

\* C8 as stated: the value returned is the count of lines actually removed
\* from the file.
C8_ReturnsRemovedCount ==
    pc = "done" => BoolAsInt(ret) = LinesRemoved

\* C8 as amended: the value returned is a success flag, False exactly when
\* an I/O error was caught and True otherwise (also for the empty key set
\* and the dry run); the count of removed lines is printed, not returned,
\* and the printed count is the number of lines the file lost.
C8_ReturnsFlagPrintsCount ==
    pc = "done" =>
        /\ ret = (LastOut.tag # "error")
        /\ LastOut.tag \in {"no_unused", "dry_run", "deleted", "error"}
        /\ LastOut.tag = "deleted" => LastOut.n = LinesRemoved

\* C8 witness: a run that removed two lines and returned True
C8_Witness == Rewrote /\ ret = TRUE /\ LinesRemoved = 2 /\ LastOut.n = 2

----------------------------------------------------------------------------
(* Properties of snake_to_camel *)

\* the first character upper-cased, the remainder unchanged
RefCapFirst(w) ==
    IF Len(w) = 0 THEN w ELSE Upper(CharAt(w, 1)) \o From(w, 2)

RECURSIVE RefCapEach(_)
RefCapEach(ws) ==
    IF Len(ws) = 0 THEN "" ELSE RefCapFirst(ws[1]) \o RefCapEach(Tail(ws))

RefLast(seg) ==
    IF \E i \in 1..Len(seg) : CharAt(seg, i) = "_"
    THEN Split(seg, "_")[1] \o RefCapEach(Tail(Split(seg, "_")))
    ELSE seg

RECURSIVE RefSegments(_)
RefSegments(segs) ==
    IF Len(segs) = 1 THEN RefLast(segs[1])
    ELSE RefCapFirst(segs[1]) \o "." \o RefSegments(Tail(segs))

\* the transform of section 4.2
RefTransform(key) == RefSegments(Split(key, "."))

\* C5: snake_to_camel(key) equals the reference transform (in the last
\* segment every sub-segment after the first gets its first character
\* capitalized and keeps its other characters), the same on every call.
C5_MatchesReference ==
    camel_calls > 0 =>
        /\ camel_result = RefTransform(snake_str)
        /\ camel_again = camel_result

\* C5, restricted to keys whose last segment has no upper-case letter after
\* an underscore: there the code and the reference agree.
C5_AgreesOnLowerCaseKeys ==
    (camel_calls > 0 /\ ~Contains(snake_str, "B"))
        => camel_result = RefTransform(snake_str) /\ camel_again = camel_result

----------------------------------------------------------------------------
(* Properties of is_localization_used *)

\* what the scan can see of a file: the text of a readable file, nothing of
\* a file that cannot be read
Visible(f) == IF f.readable THEN f.content ELSE ""

\* file i holds the generator-style reference L10n.<transformedKey>
HasGenRef(i) ==
    Contains(Visible(swift_files[i]), "L10n." \o snake_to_camel(original_key))

OcForm == "NSLocalizedString(@\"" \o original_key \o "\""
SwiftForm == "NSLocalizedString(\"" \o original_key \o "\""

\* file i holds the native-lookup form appropriate to its extension
HasNativeRef(i) ==
    LET f == swift_files[i]
    IN  \/ f.suffix \in {".m", ".mm", ".h"} /\ Contains(Visible(f), OcForm)
        \/ /\ f.suffix = ".swift"
           /\ Contains(Visible(f), SwiftForm) \/ Contains(Visible(f), OcForm)

FileIds == 1..Len(swift_files)
AnyGenRef == \E i \in FileIds : HasGenRef(i)
AnyNativeRef == \E i \in FileIds : HasNativeRef(i)

\* C6: the key is classified Unused if and only if no scanned file holds the
\* generator-style reference and none holds the native-lookup form of its
\* extension; with no generator-style reference anywhere and a native form
\* in some file it is classified NativeLookupStyle.
C6_Classification ==
    scan_pc = "done" =>
        /\ (~scan_result.is_used) <=> (~AnyGenRef /\ ~AnyNativeRef)
        /\ (~scan_result.is_used) <=> (scan_result.usage_type = "")
        /\ (~AnyGenRef /\ AnyNativeRef)
               => scan_result.usage_type = "NSLocalizedString"

\* C6 witness: a .swift file holds only the Objective-C form, nothing holds
\* the generator-style reference, and the key is NativeLookupStyle
C6_Witness ==
    /\ scan_pc = "done"
    /\ ~AnyGenRef
    /\ \E i \in FileIds :
          /\ swift_files[i].suffix = ".swift"
          /\ Contains(Visible(swift_files[i]), OcForm)
          /\ ~Contains(Visible(swift_files[i]), SwiftForm)
    /\ \A i \in FileIds : swift_files[i].suffix = ".swift"
    /\ scan_result.usage_type = "NSLocalizedString"

\* C9: if any scanned file holds the generator-style reference the key is
\* classified SwiftGenStyle and exactly one file, the first such file in
\* scan order, is recorded, whatever native references come earlier; the key
\* is NativeLookupStyle only when no file holds the generator-style reference.
C9_GeneratorStylePriority ==
    scan_pc = "done" =>
        /\ AnyGenRef =>
              /\ scan_result.usage_type = "SwiftGen"
              /\ Len(scan_result.used_files) = 1
              /\ HasGenRef(scan_result.used_files[1])
              /\ \A j \in FileIds :
                    j < scan_result.used_files[1] => ~HasGenRef(j)
        /\ scan_result.usage_type = "NSLocalizedString" => ~AnyGenRef

\* C9 witness: the first file holds a native reference, the second the
\* generator-style one, and the second is the file recorded
C9_Witness ==
    /\ scan_pc = "done"
    /\ Len(swift_files) = 2
    /\ HasNativeRef(1) /\ ~HasGenRef(1)
    /\ HasGenRef(2)
    /\ scan_result = Result(TRUE, <<2>>, "SwiftGen")

\* the files of the list that can be read, in order
ReadableOnly(files) == SelectSeq(files, LAMBDA f : f.readable)

\* C10: a file that cannot be read counts as no match and the scan goes on:
\* the classification is the one the same list gives with the unreadable
\* files removed.
C10_ReadErrorAbsorbed ==
    scan_pc = "done" =>
        LET clean == is_localization_used(original_key,
                         snake_to_camel(original_key),
                         ReadableOnly(swift_files))
        IN  /\ scan_result.is_used = clean.is_used
            /\ scan_result.usage_type = clean.usage_type
            /\ \A i \in FileIds :
                  ~swift_files[i].readable
                      => \A t \in {OcForm, SwiftForm,
                                    "L10n." \o snake_to_camel(original_key)} :
                            ~search_in_file(swift_files[i], t)

\* C10 witness: an unreadable file that holds the generator-style reference
\* comes first, and the scan goes on to find a native reference after it
C10_Witness ==
    /\ scan_pc = "done"
    /\ Len(swift_files) = 2
    /\ ~swift_files[1].readable
    /\ Contains(swift_files[1].content,
                "L10n." \o snake_to_camel(original_key))
    /\ scan_result = Result(TRUE, <<2>>, "NSLocalizedString")

----------------------------------------------------------------------------
(* Properties of the key-diff tool *)

\* the key set of a file that was read
KeysOf(file) == parse_strings_file_content(read_file_content(file).content)

WasRead(file) == file.exists /\ file.readable

\* the elements of a sequence
Elements(seq) == { seq[i] : i \in 1..Len(seq) }

\* the printed list shows exactly the keys of the set, each once, ascending
ShowsSorted(printed, keys) ==
    /\ Elements(printed) = keys
    /\ Len(printed) = Cardinality(keys)
    /\ \A i, j \in 1..Len(printed) : i < j => StrLess(printed[i], printed[j])

\* C7: compare_and_display_missing_keys displays exactly the keys of
\* baseKeys - compareKeys, each once and in ascending lexicographic order
\* whatever the line order of the files, and returns the size of that
\* difference; a key set diffed against itself gives the empty list and 0.
C7_MissingKeysSortedAndCounted ==
    LET m1 == base_keys \ KeysOf(compare_file1)
        m2 == base_keys \ KeysOf(compare_file2)
    IN  /\ Len(shown) >= 1 => ShowsSorted(shown[1], m1)
        /\ Len(shown) = 2 => ShowsSorted(shown[2], m2)
        /\ Len(shown) = 1 => total_missing = Cardinality(m1)
        /\ Len(shown) = 2 => total_missing = Cardinality(m1) + Cardinality(m2)
        /\ (Len(shown) >= 1 /\ KeysOf(compare_file1) = base_keys)
               => shown[1] = <<>>

\* C7 witness: the base file lists b before ab, the comparison file has
\* neither, and they are shown as ab, b and counted as 2
C7_Witness ==
    /\ base_file.data = "\"b\"=\"1\";\n// \"a\"=\"0\";\n\"ab\" = \"2\";\n"
    /\ Len(shown) >= 1
    /\ shown[1] = <<"ab", "b">>
    /\ diff_pc = "read_compare2"
    /\ total_missing = 2

\* every file given on the command line was read
AllRead ==
    /\ WasRead(base_file)
    /\ WasRead(compare_file1)
    /\ compare2_given => WasRead(compare_file2)

\* no key of the base file is missing from a comparison file given
NoneMissing ==
    /\ KeysOf(base_file) \subseteq KeysOf(compare_file1)
    /\ compare2_given => KeysOf(base_file) \subseteq KeysOf(compare_file2)

\* C4: the exit code of the process is 0 if and only if the base file and
\* every comparison file given were read and no key of the base file is
\* missing from any of them, and 1 in every other case.
C4_ExitCode ==
    diff_pc = "exited" => exit_code = (IF AllRead /\ NoneMissing THEN 0 ELSE 1)

\* C4, asked of the value main() returns instead of the exit code: this
\* fails too (an unreadable compare_file2 is skipped, a base file without
\* keys gives 1).
C4_MainReturnValue ==
    diff_pc \in {"returned", "exited"}
        => main_ret = (IF AllRead /\ NoneMissing THEN 0 ELSE 1)

\* what the code does: the exit code is always 0; main() returns 0 exactly
\* when base and compare_file1 were read, the base file has a key, and no
\* key is missing from compare_file1 nor from a compare_file2 that was read
C4_WhatTheCodeDoes ==
    diff_pc = "exited" =>
        /\ exit_code = 0
        /\ main_ret = 0 <=>
              /\ WasRead(base_file) /\ WasRead(compare_file1)
              /\ KeysOf(base_file) # {}
              /\ KeysOf(base_file) \subseteq KeysOf(compare_file1)
              /\ (compare2_given /\ WasRead(compare_file2))
                     => KeysOf(base_file) \subseteq KeysOf(compare_file2)

----------------------------------------------------------------------------
(* Properties of parse_localizable_strings *)

\* parse_localizable_strings has returned a table
Parsed == pc = "parse_done"

\* the sequence of lines the parser went through
ParsedLines == SplitLines(UniversalNewlines(original))

\* the numbers of the lines that match the entry pattern
EntryLines(ls) == { i \in 1..Len(ls) : MatchEntry(ls[i]).ok }

\* the number of the last line that matches the pattern with key k
LastLineOf(ls, k) ==
    CHOOSE i \in EntryLines(ls) :
        /\ MatchEntry(ls[i]).key = k
        /\ \A j \in EntryLines(ls) : MatchEntry(ls[j]).key = k => j <= i

\* the lines that match the entry pattern, in order
OnlyEntries(ls) ==
    LET IsEntry(l) == MatchEntry(l).ok IN SelectSeq(ls, IsEntry)

\* C11: after the parser has processed a sequence of lines, the keys of the
\* table are the keys of the lines that match the entry pattern, each key
\* has one value, the value of the last matching line with that key, and
\* the blank, comment and failing lines change nothing: the table is the
\* one the matching lines alone give.
C11_LastMatchWins ==
    Parsed =>
        LET ls == ParsedLines
        IN  /\ DOMAIN localizations =
                   { MatchEntry(ls[i]).key : i \in EntryLines(ls) }
            /\ \A k \in DOMAIN localizations :
                   localizations[k].value =
                       MatchEntry(ls[LastLineOf(ls, k)]).value
            /\ localizations =
                   ParseFrom(OnlyEntries(ls), 1, <<>>, <<>>).localizations

\* C11 witness: key a on the first and the third line, a line that fails
\* the pattern between them; the warning names line 2 and a has the value
\* of the third line
C11_Witness ==
    /\ Parsed
    /\ original = "\"a\"=\"x\";" \o LF \o "\"a\"=x;" \o LF
                      \o "\"a\"=\"\\\"\";" \o LF
    /\ \E i \in 1..Len(out) : out[i] = Msg("warning", 2)
    /\ DOMAIN localizations = {"a"}
    /\ localizations["a"].value = BSL \o QUOTE

----------------------------------------------------------------------------
(* Properties of run *)

\* the target file has been opened for writing, or the backup file has
\* been, or one of them is no longer what it was when the run began
TouchedFiles ==
    \/ pc \in {"rm_write_backup", "rm_write_target"}
    \/ localizable_file # target_before
    \/ backup_file # backup_before

\* the three conditions of run(): no preview, a key classified unused, and
\* the prompt answered y in either case
MayClean == ~dry_run /\ unused # {} /\ confirm \in {"y", "Y"}

\* C12: in every run of the cleaner the target file is opened for writing
\* only if dry_run is false, at least one key was classified unused and the
\* user answered the prompt with y (in either case); in every other run (a
\* preview, no unused key, another answer, a parse failure or an empty
\* table) the target file is left as it was and no backup file is written.
C12_WritesOnlyWhenConfirmed ==
    entry = "run" =>
        /\ TouchedFiles => MayClean
        /\ (pc = "run_done" /\ ~MayClean)
               => /\ localizable_file = target_before
                  /\ backup_file = backup_before

\* C12 witness: a run that found key b unused and was answered Y has
\* rewritten the target without the line of b and returned True
C12_Witness ==
    /\ entry = "run"
    /\ pc = "run_done"
    /\ ~dry_run
    /\ unused = {"b"}
    /\ confirm = "Y"
    /\ run_ret = "True"
    /\ original = "\"a\"=\"x\";" \o LF \o "  \"b\" = \"y\" ; " \o LF
    /\ localizable_file = File("\"a\"=\"x\";" \o LF)
    /\ backup_file = File(original)

----------------------------------------------------------------------------
(* Parser and remover together *)

\* the table without the keys of the set
Restrict(table, keys) == [k \in (DOMAIN table) \ keys |-> table[k]]

\* the first call has returned True and the parser has read what it left
ParsedAfterRemoval == entry = "agree" /\ pc = "agree_parsed" /\ ret = TRUE

\* the second call with the same keys has rewritten the file
RemovedAgain == entry = "again" /\ Rewrote

\* the second call dropped no line and wrote back what it had read
SecondCallChangesNothing ==
    /\ LastOut = Msg("deleted", 0)
    /\ filtered_lines = lines
    /\ localizable_file.data = ConcatKept(lines, {})

\* C13: parser and remover agree: for every file content and every key
\* set U, the table parsed from the file remove_unused_localizations(U)
\* has written is the table parsed from the original file without the keys
\* of U, and a second removal with the same U removes no line and leaves
\* the file content unchanged.
C13_ParserAndRemoverAgree ==
    /\ ParsedAfterRemoval =>
           localizations =
               Restrict(parse_localizable_strings(original).localizations,
                        unused_keys)
    /\ RemovedAgain => SecondCallChangesNothing

\* C13, the half the code keeps: the second removal with the same keys
\* removes no line and writes back the content it has read
C13_SecondRemovalChangesNothing == RemovedAgain => SecondCallChangesNothing

\* C13, the other half on the files where parser and remover see the same
\* lines (no form feed in the file): the tables agree
C13_AgreeWithoutFormFeed ==
    (ParsedAfterRemoval /\ ~Contains(original, FF)) =>
        localizations =
            Restrict(parse_localizable_strings(original).localizations,
                     unused_keys)

\* the case that breaks C13 has been reached: the form feed line, key b
\* asked to be removed, and b still in the table parsed afterwards
C13_FormFeedKeepsKey ==
    /\ ParsedAfterRemoval
    /\ original = FormFeedLine \o LF
    /\ unused_keys = {"b"}
    /\ localizable_file.data = original
    /\ "b" \in DOMAIN localizations

====
